---------------------------- MODULE Spec2Model ----------------------------
(***************************************************************************)
(* Model of the look-ahead playback hook useAudioPlayback                  *)
(* (frontend/src/hooks/useAudioPlayback.ts), of its pure functions         *)
(* noteToFreq and durationToSecs, and of the transcription job followed by *)
(* useTranscription over useSSE.  The specifications: Spec (LiveSpec with  *)
(* fairness, MalformedSpec for timelines with unknown duration codes,      *)
(* ChangeSpec for a hook re-rendered with other arguments), PureSpec and   *)
(* DurationSpec for the pure functions, and SseSpec.                       *)
(*                                                                         *)
(* All times are integers in milliseconds: 0.02 s is 20, 2.0 s is 2000.    *)
(* `now` is audioCtx.currentTime; it is 0 until a context exists and       *)
(* advances only while the context is running.  Indices into the sorted    *)
(* timeline are the code's 0-based indices; element i of the code is       *)
(* sortedNotes[i + 1] here.                                                *)
(***************************************************************************)
EXTENDS Integers, Sequences, FiniteSets, TLC

VARIABLES
    mounted,          \* the component using the hook is mounted
    playbackState,    \* useState<PlaybackState>            (line 37)
    currentTime,      \* useState(0)                        (line 38)
    audioCtx,         \* audioCtxRef: "none" is null, else the context's state
    now,              \* audioCtx.currentTime
    playPending,      \* a play() call is suspended at `await audioCtx.resume()`
    oscs,             \* oscsRef.current, in push order
    contextStart,     \* contextStartRef.current
    seekOffset,       \* seekOffsetRef.current
    raf,              \* a requestAnimationFrame(tick) callback is pending
    schedulerTimer,   \* due time of the pending setTimeout(runScheduler), or Null
    nextNoteIndex,    \* nextNoteIndexRef.current
    sortedNotes,      \* sortedNotesRef.current
    tempo,            \* tempoRef.current
    totalDuration,    \* totalDurationRef.current
    lastOp,           \* history: the handler that ran last
    prevState,        \* history: playbackState before the handler that ran last
    voiced,           \* history: the voices created since the last (re)start
    timeouts,         \* setTimeout callbacks armed and neither fired nor cleared
    frames,           \* animation-frame callbacks requested, neither run nor cancelled
    origin,           \* history: how the last session started: the playbackState play()
                      \* found, and the pause position it resumed from (or Null)
    late,             \* history: a scheduler tick of this session was still pending one
                      \* step after it fell due
    notes,            \* the notes argument of the hook, as given
    changes,          \* the number of times the arguments of the hook were replaced
    cancelled,        \* history: pause(), stop() or the teardown ran while a play() call
                      \* was suspended, and play() has not been called since
    pausedAt,         \* history: engine_time - anchor at the last pause() of a playing
                      \* session; Null again from the next play() call on
    fnPitch,          \* noteToFreq: the pitch argument
    fnOctave,         \* noteToFreq: the octave argument
    fnMidi,           \* noteToFreq: the midi number computed, or Null before the call
    fnFreq,           \* noteToFreq: the value returned, or Null before the call
    fnDuration,       \* durationToSecs: the duration argument
    fnTempo,          \* durationToSecs: the tempo argument
    fnSecs,           \* durationToSecs: the value returned (ms), or Null before the call
    sse,              \* useSSE: eventSourceRef: "none" is null, else the readyState
    stage,            \* useTranscription: useState('idle')     (line 33)
    progress,         \* useTranscription: useState(0)          (line 32)
    result,           \* useTranscription: a result is held     (line 34)
    error,            \* useTranscription: useState(null), "none" is null (line 36)
    isProcessing,     \* useTranscription: useState(false)      (line 37)
    logs,             \* useTranscription: the types of the log entries (line 38)
    lastLoggedStage,  \* useTranscription: lastLoggedStageRef   (line 40)
    submitPending,    \* a submit call is suspended at `await apiClient...`
    srvStep,          \* the stage the job streamed over the connection has reached
    jobs              \* the number of submit calls made

hookVars == <<mounted, playbackState, currentTime, audioCtx, now, playPending, oscs,
              contextStart, seekOffset, raf, schedulerTimer, nextNoteIndex,
              sortedNotes, tempo, totalDuration,
              notes, changes,
              lastOp, prevState, voiced, origin, late, pausedAt, cancelled,
              timeouts, frames>>
pureVars == <<fnPitch, fnOctave, fnMidi, fnFreq, fnDuration, fnTempo, fnSecs>>
sseVars == <<sse, stage, progress, result, error, isProcessing, logs, lastLoggedStage,
             submitPending, srvStep, jobs>>
vars == <<hookVars, pureVars, sseVars>>

Null == -1

(***************************************************************************)
(* Program constants.                                                      *)
(***************************************************************************)
LOOKAHEAD_SECS == 2000
SCHEDULE_INTERVAL_MS == 200
PastTolerance == 20
attackTime == 3

NOTE_SEMITONES ==
    [p \in {"C", "C#", "Db", "D", "D#", "Eb", "E", "F", "F#", "Gb", "G", "G#",
            "Ab", "A", "A#", "Bb", "B"} |->
        CASE p = "C" -> 0 [] p = "C#" -> 1 [] p = "Db" -> 1 [] p = "D" -> 2
          [] p = "D#" -> 3 [] p = "Eb" -> 3 [] p = "E" -> 4 [] p = "F" -> 5
          [] p = "F#" -> 6 [] p = "Gb" -> 6 [] p = "G" -> 7 [] p = "G#" -> 8
          [] p = "Ab" -> 8 [] p = "A" -> 9 [] p = "A#" -> 10 [] p = "Bb" -> 10
          [] p = "B" -> 11]

\* Duration codes are sequences of characters; beats are kept in sixteenth
\* notes (quarters of a beat) so that the table stays integral.
DurationCodes ==
    {<<"w">>, <<"h", "d">>, <<"h">>, <<"q", "d">>, <<"q">>, <<"8", "d">>,
     <<"8">>, <<"1", "6">>}

DURATION_BEATS ==
    [c \in DurationCodes |->
        CASE c = <<"w">> -> 16 [] c = <<"h", "d">> -> 12 [] c = <<"h">> -> 8
          [] c = <<"q", "d">> -> 6 [] c = <<"q">> -> 4 [] c = <<"8", "d">> -> 3
          [] c = <<"8">> -> 2 [] c = <<"1", "6">> -> 1]

\* DURATION_BEATS is an object literal: a key it does not own is looked up on
\* Object.prototype, and the names defined there yield a function, not
\* undefined.  Of these names only valueOf can be left by replace('r', '').
InheritedKeys == {<<"v", "a", "l", "u", "e", "O", "f">>}

\* The number a non-numeric beats value multiplies to.
NaN == -2

Min(a, b) == IF a < b THEN a ELSE b
Max(a, b) == IF a > b THEN a ELSE b

\* Mutant: octave 0 starts at midi 0.
noteToMidiFromZero(pitch, octave) ==
    LET semitone == IF pitch \in DOMAIN NOTE_SEMITONES THEN NOTE_SEMITONES[pitch] ELSE 0
    IN octave * 12 + semitone

\* midi number of noteToFreq; the frequency is 440 * 2^((midi - 69) / 12), a
\* strictly increasing function of midi, so the midi number stands for it.
noteToMidi(pitch, octave) ==
    LET semitone == IF pitch \in DOMAIN NOTE_SEMITONES THEN NOTE_SEMITONES[pitch] ELSE 0
    IN (octave + 1) * 12 + semitone

\* noteToFreq: 440 * 2^((midi - 69) / 12) Hz, kept as the base and the
\* exponent in twelfths.
noteToFreq(pitch, octave) == [hz |-> 440, twelfths |-> noteToMidi(pitch, octave) - 69]

\* String.prototype.replace('r', ''): removes the first "r" only.
RECURSIVE StripFirstR(_)
StripFirstR(s) ==
    IF s = <<>> THEN <<>>
    ELSE IF Head(s) = "r" THEN Tail(s)
    ELSE <<Head(s)>> \o StripFirstR(Tail(s))

EndsWithR(s) == Len(s) > 0 /\ s[Len(s)] = "r"

\* Mutant: the rest suffix is looked up with the code.
durationToSecsKeepingSuffix(duration, tp) ==
    LET beats16 == IF duration \in DurationCodes THEN DURATION_BEATS[duration] ELSE 4
    IN IF duration \in InheritedKeys THEN NaN ELSE (beats16 * 15000) \div tp

\* beats * (60 / tempo) seconds, in milliseconds; exact for the tempos used.
\* `?? 1` replaces undefined only, so an inherited key multiplies to NaN.
durationToSecs(duration, tp) ==
    LET code == StripFirstR(duration)
        beats16 == IF code \in DurationCodes THEN DURATION_BEATS[code] ELSE 4
    IN IF code \in InheritedKeys THEN NaN ELSE (beats16 * 15000) \div tp

(***************************************************************************)
(* The notes input and its sorted copy.                                    *)
(***************************************************************************)
Note(p, o, d, s) == [pitch |-> p, octave |-> o, duration |-> d, start_time |-> s]

\* Array.prototype.sort with (a, b) => a.start_time - b.start_time: a stable
\* sort, modelled as insertion sort.
RECURSIVE InsertNote(_, _)
InsertNote(n, s) ==
    IF s = <<>> THEN <<n>>
    ELSE IF n.start_time < Head(s).start_time THEN <<n>> \o s
    ELSE <<Head(s)>> \o InsertNote(n, Tail(s))

RECURSIVE SortNotes(_)
SortNotes(ns) ==
    IF ns = <<>> THEN <<>>
    ELSE InsertNote(ns[Len(ns)], SortNotes(SubSeq(ns, 1, Len(ns) - 1)))

ValueOf == <<"v", "a", "l", "u", "e", "O", "f">>

\* Timelines with a duration code that is not in the table: a code no object
\* knows ("32"), valueOf beyond the first look-ahead window, and valueOf
\* within it.
MalformedSongs ==
    << [notes |-> << Note("E", 4, <<"3", "2">>, 0),
                     Note("G", 4, <<"q">>, 1000) >>,
        tempo |-> 60, total_duration |-> 2000],
       [notes |-> << Note("C", 4, <<"q">>, 0),
                     Note("D", 4, ValueOf, 2500),
                     Note("E", 4, <<"q">>, 3000) >>,
        tempo |-> 120, total_duration |-> 3500],
       [notes |-> << Note("C", 4, <<"q">>, 0),
                     Note("D", 4, ValueOf, 500),
                     Note("E", 4, <<"q">>, 1000) >>,
        tempo |-> 120, total_duration |-> 1500] >>

\* The inputs explored: the example of the specification, a song longer than
\* the look-ahead window given out of order, and a song with start times
\* just before a possible pause point.
Songs ==
    << [notes |-> << Note("C", 4, <<"q">>, 0),
                     Note("C", 4, <<"q", "r">>, 500),
                     Note("D", 4, <<"q">>, 1000) >>,
        tempo |-> 120, total_duration |-> 1500],
       [notes |-> << Note("E", 4, <<"q">>, 2750),
                     Note("C", 4, <<"w">>, 0),
                     Note("D", 4, <<"q">>, 2250) >>,
        tempo |-> 120, total_duration |-> 3250],
       [notes |-> << Note("C", 4, <<"8">>, 0),
                     Note("F#", 4, <<"1", "6">>, 470),
                     Note("Gb", 4, <<"8">>, 490),
                     Note("A", 4, <<"8", "r">>, 750) >>,
        tempo |-> 120, total_duration |-> 1000] >>

(***************************************************************************)
(* Bounds of the exploration.                                              *)
(***************************************************************************)
MaxInstants == 14
Steps == {250}
Horizon == MaxInstants * 250
StepMs == CHOOSE d \in Steps : TRUE

(***************************************************************************)
(* Helpers of the hook.                                                    *)
(***************************************************************************)
\* setPlaybackState / setCurrentTime: React drops updates of an unmounted
\* component.
SetPlaybackState(v) == IF mounted THEN v ELSE playbackState
SetCurrentTime(v) == IF mounted THEN v ELSE currentTime

\* cancelRaf, cancelScheduler, killOscillators: the values they leave behind.

\* Mutant: the pending animation frame is not cancelled.
cancelRafNoop == raf
cancelRaf == FALSE

\* Mutant: the pending timeout is not cleared.
cancelSchedulerNoop == schedulerTimer
cancelScheduler == Null

\* Mutant: the oscillators are neither stopped nor dropped.
killOscillatorsLeak == oscs
killOscillators == <<>>

\* Mutant: cancelScheduler drops its handle without clearing the timeout.
timeoutsLeaked == timeouts

\* cancelScheduler, lines 72-75: clearTimeout on the handle, when there is one.
timeoutsCancelled == IF schedulerTimer # Null THEN timeouts - 1 ELSE timeouts

\* cancelRaf, lines 65-68: cancelAnimationFrame on the handle, when there is one.
framesCancelled == IF raf THEN frames - 1 ELSE frames

\* setTimeout, line 155, when runSchedulerRef re-arms: one more pending callback.
Armed(timer) == IF timer # Null THEN 1 ELSE 0

\* The two oscillators of one voice.
voiceOscs(i, midi, schedStart, endAt, brightStop) ==
    << [note |-> i, kind |-> "main", midi |-> midi, start |-> schedStart, stop |-> endAt],
       [note |-> i, kind |-> "bright", midi |-> midi + 12, start |-> schedStart,
        stop |-> brightStop] >>

\* Mutant: a rest is voiced like any other event.
scheduleNoteVoicingRests(os, i, cs) ==
    LET note == sortedNotes[i + 1]
        startAt == cs + note.start_time
        dur == durationToSecs(note.duration, tempo)
        schedStart == Max(startAt, now)
    IN IF startAt < now - PastTolerance THEN os
       ELSE os \o voiceOscs(i, noteToMidi(note.pitch, note.octave), schedStart,
                            startAt + dur, schedStart + attackTime + 10)

\* Mutant: an event whose start has passed is voiced all the same.
scheduleNotePlayingLate(os, i, cs) ==
    LET note == sortedNotes[i + 1]
        startAt == cs + note.start_time
        dur == durationToSecs(note.duration, tempo)
        schedStart == Max(startAt, now)
    IN IF EndsWithR(note.duration) THEN os
       ELSE os \o voiceOscs(i, noteToMidi(note.pitch, note.octave), schedStart,
                            startAt + dur, schedStart + attackTime + 10)

\* scheduleNoteRef: the oscillator list after scheduling the note at 0-based
\* index i, with the clock anchored at cs.
scheduleNote(os, i, cs) ==
    LET note == sortedNotes[i + 1]
        startAt == cs + note.start_time
        midi == noteToMidi(note.pitch, note.octave)
        dur == durationToSecs(note.duration, tempo)
        endAt == startAt + dur
        schedStart == Max(startAt, now)
        decayTime == Min(300, (dur * 4) \div 10)
        brightDecay == (decayTime * 4) \div 10
    IN IF EndsWithR(note.duration) THEN os
       ELSE IF startAt < now - PastTolerance THEN os
       ELSE os \o voiceOscs(i, midi, schedStart, endAt,
                            schedStart + attackTime + brightDecay + 10)

\* scheduleNoteRef throws: a NaN duration reaches
\* exponentialRampToValueAtTime (line 116), which rejects a non-finite time
\* with a TypeError, before the oscillator is started or pushed.
scheduleNoteThrows(i, cs) ==
    LET note == sortedNotes[i + 1]
    IN /\ ~EndsWithR(note.duration)
       /\ ~(cs + note.start_time < now - PastTolerance)
       /\ durationToSecs(note.duration, tempo) = NaN

\* Mutant: the loop does not look at the window and runs to the end of the
\* timeline.
RECURSIVE scheduleLoopAll(_, _, _)
scheduleLoopAll(i, os, cs) ==
    IF i < Len(sortedNotes)
    THEN IF scheduleNoteThrows(i, cs)
         THEN [idx |-> i, oscs |-> os, threw |-> TRUE]
         ELSE scheduleLoopAll(i + 1, scheduleNote(os, i, cs), cs)
    ELSE [idx |-> i, oscs |-> os, threw |-> FALSE]

\* The while loop of runSchedulerRef, from cursor i.  An exception leaves the
\* loop with the cursor on the event that raised it.
RECURSIVE scheduleLoop(_, _, _)
scheduleLoop(i, os, cs) ==
    IF i < Len(sortedNotes)
       /\ sortedNotes[i + 1].start_time <= (now - cs) + LOOKAHEAD_SECS
    THEN IF scheduleNoteThrows(i, cs)
         THEN [idx |-> i, oscs |-> os, threw |-> TRUE]
         ELSE scheduleLoop(i + 1, scheduleNote(os, i, cs), cs)
    ELSE [idx |-> i, oscs |-> os, threw |-> FALSE]

\* Mutant: the scheduler never re-arms its timer.
runSchedulerOnce(i, os, cs) ==
    LET r == scheduleLoop(i, os, cs)
    IN [idx |-> r.idx, oscs |-> r.oscs, timer |-> Null, threw |-> r.threw]

\* Mutant: the cursor is moved once more after the loop.
runSchedulerOvershooting(i, os, cs) ==
    LET r == scheduleLoop(i, os, cs)
    IN [idx |-> r.idx + 1, oscs |-> r.oscs,
        timer |-> IF ~r.threw /\ r.idx < Len(sortedNotes)
                  THEN now + SCHEDULE_INTERVAL_MS ELSE Null,
        threw |-> r.threw]

\* runSchedulerRef: cursor, oscillators and pending timer after one run; an
\* exception skips the setTimeout.
runScheduler(i, os, cs) ==
    LET r == scheduleLoop(i, os, cs)
    IN [idx |-> r.idx, oscs |-> r.oscs,
        timer |-> IF ~r.threw /\ r.idx < Len(sortedNotes)
                  THEN now + SCHEDULE_INTERVAL_MS ELSE Null,
        threw |-> r.threw]

\* Mutant: the cursor of the previous session is kept.
firstIndexStale(i, from) == nextNoteIndex

\* Mutant: the search leaves out the tolerance.
RECURSIVE firstIndexNoTolerance(_, _)
firstIndexNoTolerance(i, from) ==
    IF i < Len(sortedNotes) /\ sortedNotes[i + 1].start_time < from
    THEN firstIndexNoTolerance(i + 1, from)
    ELSE i

\* play, lines 178-179: the first index whose start_time is not before
\* from - 0.02.
RECURSIVE firstIndexFrom(_, _)
firstIndexFrom(i, from) ==
    IF i < Len(sortedNotes) /\ sortedNotes[i + 1].start_time < from - PastTolerance
    THEN firstIndexFrom(i + 1, from)
    ELSE i

\* The voices (primary oscillators) among a list of oscillators.
RECURSIVE Mains(_)
Mains(os) ==
    IF os = <<>> THEN <<>>
    ELSE IF Head(os).kind = "main" THEN <<Head(os)>> \o Mains(Tail(os))
    ELSE Mains(Tail(os))

\* Mutant: the clock is anchored at the current engine time, without the offset.
anchorIgnoringOffset(from) == now

\* play, line 174: the anchor that puts song position `from` at engine time now.
anchorAt(from) == now - from

NoSession == [from |-> "none", p |-> Null]

(***************************************************************************)
(* Initial state: the hook right after its first render.                   *)
(***************************************************************************)
InitWith(songs) ==
    /\ mounted = TRUE
    /\ playbackState = "idle"
    /\ currentTime = 0
    /\ audioCtx = "none"
    /\ now = 0
    /\ playPending = FALSE
    /\ oscs = <<>>
    /\ contextStart = 0
    /\ seekOffset = 0
    /\ raf = FALSE
    /\ schedulerTimer = Null
    /\ nextNoteIndex = 0
    /\ changes = 0
    /\ timeouts = 0
    /\ frames = 0
    /\ \E k \in DOMAIN songs :
          /\ notes = songs[k].notes
          /\ sortedNotes = SortNotes(songs[k].notes)
          /\ tempo = songs[k].tempo
          /\ totalDuration = songs[k].total_duration
    /\ lastOp = "init"
    /\ prevState = "idle"
    /\ voiced = <<>>
    /\ origin = NoSession
    /\ late = FALSE
    /\ pausedAt = Null
    /\ cancelled = FALSE

\* No call of noteToFreq is being followed.
PureIdle ==
    /\ fnPitch = "C"
    /\ fnOctave = 0
    /\ fnMidi = Null
    /\ fnFreq = Null
    /\ fnDuration = <<"q">>
    /\ fnTempo = 120
    /\ fnSecs = Null

\* useTranscription and useSSE right after the first render.
SseIdle ==
    /\ sse = "none"
    /\ stage = "idle"
    /\ progress = 0
    /\ result = FALSE
    /\ error = "none"
    /\ isProcessing = FALSE
    /\ logs = <<>>
    /\ lastLoggedStage = ""
    /\ submitPending = FALSE
    /\ srvStep = 0
    /\ jobs = 0

Init == InitWith(Songs) /\ PureIdle /\ SseIdle

(***************************************************************************)
(* play(): lines 169-201, the part after the await.  An exception of the   *)
(* scheduler ends the call before setPlaybackState and the first           *)
(* requestAnimationFrame.                                                  *)
(***************************************************************************)
playBody ==
    LET from == seekOffset
        cs == anchorAt(from)
        r == runScheduler(firstIndexFrom(0, from), killOscillators, cs)
    IN /\ contextStart' = cs
       /\ nextNoteIndex' = r.idx
       /\ oscs' = r.oscs
       /\ schedulerTimer' = r.timer
       /\ playbackState' = IF r.threw THEN playbackState ELSE SetPlaybackState("playing")
       /\ raf' = IF r.threw THEN cancelRaf ELSE TRUE
       /\ voiced' = Mains(r.oscs)
       /\ timeouts' = timeoutsCancelled + Armed(r.timer)
       /\ frames' = framesCancelled + (IF r.threw THEN 0 ELSE 1)
       /\ origin' = IF r.threw THEN NoSession
                     ELSE [from |-> playbackState,
                           p |-> IF playbackState = "paused" /\ seekOffset = pausedAt
                                 THEN pausedAt ELSE Null]
       /\ late' = FALSE
       /\ UNCHANGED <<mounted, currentTime, now, seekOffset, sortedNotes, tempo,
                      totalDuration>>

\* play() is called: the context is created on first use, unless the
\* constructor throws; a suspended context suspends the call at the await, a
\* running one lets it run through.
PlayCall ==
    /\ mounted
    /\ prevState' = playbackState
    /\ UNCHANGED <<pureVars, sseVars, notes, changes>>
    /\ cancelled' = FALSE
    /\ pausedAt' = Null
    /\ \E created \in {"running", "suspended", "throws"} :
          LET st == IF audioCtx = "none" THEN created ELSE audioCtx
          IN IF st = "throws"
             THEN /\ lastOp' = "playfailed"
                  /\ UNCHANGED <<mounted, playbackState, currentTime, audioCtx, now,
                                 playPending, oscs, contextStart, seekOffset, raf,
                                 schedulerTimer, nextNoteIndex, sortedNotes, tempo,
                                 totalDuration, voiced, origin, late, timeouts,
                                 frames>>
             ELSE IF st = "suspended"
             THEN /\ lastOp' = "await"
                  /\ audioCtx' = st
                  /\ playPending' = TRUE
                  /\ UNCHANGED <<mounted, playbackState, currentTime, now, oscs,
                                 contextStart, seekOffset, raf, schedulerTimer,
                                 nextNoteIndex, sortedNotes, tempo, totalDuration,
                                 voiced, origin, late, timeouts, frames>>
             ELSE /\ lastOp' = "play"
                  /\ audioCtx' = st
                  /\ UNCHANGED playPending
                  /\ playBody

\* audioCtx.resume() settles and the suspended play() call continues.
PlayResumed ==
    /\ playPending
    /\ audioCtx \in {"suspended", "closed"}
    /\ lastOp' = "resumed"
    /\ prevState' = playbackState
    /\ UNCHANGED <<pureVars, sseVars, notes, changes>>
    /\ UNCHANGED cancelled
    /\ audioCtx' = IF audioCtx = "suspended" THEN "running" ELSE audioCtx
    /\ playPending' = FALSE
    /\ UNCHANGED pausedAt
    /\ playBody

\* Mutant: the rejection is swallowed and play() goes on.
PlayRejectedContinuing ==
    /\ playPending
    /\ audioCtx \in {"suspended", "closed"}
    /\ lastOp' = "rejected"
    /\ prevState' = playbackState
    /\ UNCHANGED <<pureVars, sseVars, notes, changes>>
    /\ UNCHANGED cancelled
    /\ playPending' = FALSE
    /\ UNCHANGED <<audioCtx, pausedAt>>
    /\ playBody

\* audioCtx.resume() is rejected: the context could not be started, or it was
\* closed meanwhile.  The rest of play() does not run.
PlayRejected ==
    /\ playPending
    /\ audioCtx \in {"suspended", "closed"}
    /\ lastOp' = "rejected"
    /\ prevState' = playbackState
    /\ UNCHANGED <<pureVars, sseVars, notes, changes>>
    /\ UNCHANGED cancelled
    /\ playPending' = FALSE
    /\ UNCHANGED <<mounted, playbackState, currentTime, audioCtx, now, oscs,
                   contextStart, seekOffset, raf, schedulerTimer, nextNoteIndex,
                   sortedNotes, tempo, totalDuration, voiced, origin, late, pausedAt,
                   timeouts, frames>>

(***************************************************************************)
(* pause(), stop() and the cleanup effect.                                 *)
(***************************************************************************)
Pause ==
    /\ mounted
    /\ lastOp' = "pause"
    /\ prevState' = playbackState
    /\ UNCHANGED <<pureVars, sseVars, notes, changes>>
    /\ cancelled' = (cancelled \/ playPending)
    /\ IF audioCtx = "none"
       THEN UNCHANGED <<mounted, playbackState, currentTime, audioCtx, now,
                        playPending, oscs, contextStart, seekOffset, raf,
                        schedulerTimer, nextNoteIndex, sortedNotes, tempo,
                        totalDuration, voiced, origin, late, pausedAt, timeouts,
                        frames>>
       ELSE /\ seekOffset' = now - contextStart
            /\ raf' = cancelRaf
            /\ frames' = framesCancelled
            /\ schedulerTimer' = cancelScheduler
            /\ timeouts' = timeoutsCancelled
            /\ oscs' = killOscillators
            /\ playbackState' = SetPlaybackState("paused")
            /\ currentTime' = SetCurrentTime(now - contextStart)
            /\ origin' = NoSession
            /\ pausedAt' = IF playbackState = "playing" THEN now - contextStart
                           ELSE pausedAt
            /\ UNCHANGED <<mounted, audioCtx, now, playPending, contextStart,
                           nextNoteIndex, sortedNotes, tempo, totalDuration,
                           voiced, late>>

Stop ==
    /\ mounted
    /\ lastOp' = "stop"
    /\ prevState' = playbackState
    /\ UNCHANGED <<pureVars, sseVars, notes, changes>>
    /\ cancelled' = (cancelled \/ playPending)
    /\ raf' = cancelRaf
    /\ frames' = framesCancelled
    /\ schedulerTimer' = cancelScheduler
    /\ timeouts' = timeoutsCancelled
    /\ oscs' = killOscillators
    /\ seekOffset' = 0
    /\ playbackState' = SetPlaybackState("idle")
    /\ currentTime' = SetCurrentTime(0)
    /\ origin' = NoSession
    /\ UNCHANGED <<mounted, audioCtx, now, playPending, contextStart,
                   nextNoteIndex, sortedNotes, tempo, totalDuration, voiced, late,
                   pausedAt>>

Teardown ==
    /\ mounted
    /\ lastOp' = "teardown"
    /\ prevState' = playbackState
    /\ UNCHANGED <<pureVars, sseVars, notes, changes>>
    /\ cancelled' = (cancelled \/ playPending)
    /\ mounted' = FALSE
    /\ raf' = cancelRaf
    /\ frames' = framesCancelled
    /\ schedulerTimer' = cancelScheduler
    /\ timeouts' = timeoutsCancelled
    /\ oscs' = killOscillators
    /\ audioCtx' = IF audioCtx = "none" THEN "none" ELSE "closed"
    /\ origin' = NoSession
    /\ UNCHANGED <<playbackState, currentTime, now, playPending, contextStart,
                   seekOffset, nextNoteIndex, sortedNotes, tempo, totalDuration,
                   voiced, late, pausedAt>>

(***************************************************************************)
(* Timer callbacks.                                                        *)
(***************************************************************************)
\* Mutant: the scheduler tick also records the position it ran at as the
\* seek offset.
SchedulerTickMovingOffset ==
    /\ schedulerTimer # Null
    /\ now >= schedulerTimer \/ audioCtx = "closed"
    /\ lastOp' = "sched"
    /\ prevState' = playbackState
    /\ UNCHANGED <<pureVars, sseVars, notes, changes>>
    /\ UNCHANGED cancelled
    /\ LET r == runScheduler(nextNoteIndex, oscs, contextStart)
       IN /\ nextNoteIndex' = r.idx
          /\ oscs' = r.oscs
          /\ schedulerTimer' = r.timer
          /\ timeouts' = (timeouts - 1) + Armed(r.timer)
          /\ voiced' = voiced \o Mains(SubSeq(r.oscs, Len(oscs) + 1, Len(r.oscs)))
    /\ seekOffset' = now - contextStart
    /\ UNCHANGED <<mounted, playbackState, currentTime, audioCtx, now, playPending,
                   contextStart, raf, sortedNotes, tempo, totalDuration,
                   origin, late, pausedAt, frames>>

\* The setTimeout callback of runSchedulerRef fires.  A closed context no
\* longer advances its clock while timers still run.
SchedulerTick ==
    /\ schedulerTimer # Null
    /\ now >= schedulerTimer \/ audioCtx = "closed"
    /\ lastOp' = "sched"
    /\ prevState' = playbackState
    /\ UNCHANGED <<pureVars, sseVars, notes, changes>>
    /\ UNCHANGED cancelled
    /\ LET r == runScheduler(nextNoteIndex, oscs, contextStart)
       IN /\ nextNoteIndex' = r.idx
          /\ oscs' = r.oscs
          /\ schedulerTimer' = r.timer
          /\ timeouts' = (timeouts - 1) + Armed(r.timer)
          /\ voiced' = voiced \o Mains(SubSeq(r.oscs, Len(oscs) + 1, Len(r.oscs)))
    /\ UNCHANGED <<mounted, playbackState, currentTime, audioCtx, now, playPending,
                   contextStart, seekOffset, raf, sortedNotes, tempo, totalDuration,
                   origin, late, pausedAt, frames>>

\* Mutant: the end of the song is detected only once it is passed.
songEndedStrict(elapsed) == elapsed > totalDuration

\* tick, line 190.
songEnded(elapsed) == elapsed >= totalDuration

\* Mutant: the position is left clamped at the duration.
positionAtDuration(elapsed) == Min(elapsed, totalDuration)

\* tick, lines 189 and 196: the position is set to min(elapsed, total) and, in
\* the same callback, to 0; the state updates of one callback are applied
\* together, so the position reported after it is 0.
positionAfterCompletion(elapsed) == 0

\* Mutant: every position tick stops and drops the oscillators.
tickOscsAlwaysKilled(elapsed) == killOscillators

\* tick, lines 190-192: the oscillators the tick leaves behind.
tickOscs(elapsed) == IF songEnded(elapsed) THEN killOscillators ELSE oscs

\* The requestAnimationFrame callback `tick` of play() fires.
RafTick ==
    /\ raf
    /\ lastOp' = "raf"
    /\ prevState' = playbackState
    /\ UNCHANGED <<pureVars, sseVars, notes, changes>>
    /\ UNCHANGED cancelled
    /\ LET elapsed == now - contextStart
       IN IF songEnded(elapsed)
          THEN /\ schedulerTimer' = cancelScheduler
               /\ timeouts' = timeoutsCancelled
               /\ oscs' = tickOscs(elapsed)
               /\ raf' = cancelRaf
               /\ frames' = frames - 1
               /\ seekOffset' = 0
               /\ playbackState' = SetPlaybackState("idle")
               /\ currentTime' = SetCurrentTime(positionAfterCompletion(elapsed))
          ELSE /\ currentTime' = SetCurrentTime(Min(elapsed, totalDuration))
               /\ raf' = TRUE
               /\ frames' = (frames - 1) + 1
               /\ oscs' = tickOscs(elapsed)
               /\ UNCHANGED <<schedulerTimer, timeouts, seekOffset, playbackState>>
    /\ UNCHANGED <<mounted, audioCtx, now, playPending, contextStart, nextNoteIndex,
                   sortedNotes, tempo, totalDuration, voiced, origin, late, pausedAt>>

\* Engine time advances while the context is running.
Advance ==
    /\ audioCtx = "running"
    /\ \E d \in Steps :
          /\ now + d <= Horizon
          /\ now' = now + d
    /\ lastOp' = "advance"
    /\ prevState' = playbackState
    /\ UNCHANGED <<pureVars, sseVars, notes, changes>>
    /\ UNCHANGED cancelled
    /\ late' = (late \/ (schedulerTimer # Null /\ now >= schedulerTimer))
    /\ UNCHANGED <<mounted, playbackState, currentTime, audioCtx, playPending, oscs,
                   contextStart, seekOffset, raf, schedulerTimer, nextNoteIndex,
                   sortedNotes, tempo, totalDuration, voiced, origin, pausedAt,
                   timeouts, frames>>

Next ==
    \/ PlayCall
    \/ PlayResumed
    \/ PlayRejected
    \/ Pause
    \/ Stop
    \/ Teardown
    \/ SchedulerTick
    \/ RafTick
    \/ Advance

Spec == Init /\ [][Next]_vars

\* The same hook given a timeline with a duration code that is not in the
\* table.
InitMalformed == InitWith(MalformedSongs) /\ PureIdle /\ SseIdle
MalformedSpec == InitMalformed /\ [][Next]_vars

(***************************************************************************)
(* The hook re-rendered with other arguments: the effects of lines 56-63   *)
(* run, those whose dependencies changed, within one commit.               *)
(***************************************************************************)
MaxChanges == 1
ChangeInstants == 5

\* Timelines given out of order and with two events at the same instant, a
\* short one, and the long one.
ChangeSongs ==
    << [notes |-> << Note("D", 4, <<"q">>, 500),
                     Note("C", 4, <<"q">>, 0),
                     Note("E", 4, <<"q">>, 500),
                     Note("F", 4, <<"q">>, 1000) >>,
        tempo |-> 120, total_duration |-> 1500],
       [notes |-> << Note("G", 4, <<"q">>, 250),
                     Note("A", 4, <<"q">>, 0) >>,
        tempo |-> 60, total_duration |-> 1250],
       Songs[2] >>

InputsChanged ==
    /\ mounted
    /\ changes < MaxChanges
    /\ changes' = changes + 1
    /\ lastOp' = "inputs"
    /\ prevState' = playbackState
    /\ \E k \in DOMAIN ChangeSongs, which \in {"notes", "metadata", "both"} :
          /\ IF which \in {"notes", "both"}
             THEN /\ notes' = ChangeSongs[k].notes
                  /\ notes' # notes
                  /\ sortedNotes' = SortNotes(notes')
             ELSE UNCHANGED <<notes, sortedNotes>>
          /\ IF which \in {"metadata", "both"}
             THEN /\ tempo' = ChangeSongs[k].tempo
                  /\ totalDuration' = ChangeSongs[k].total_duration
                  /\ <<tempo', totalDuration'>> # <<tempo, totalDuration>>
             ELSE UNCHANGED <<tempo, totalDuration>>
    /\ UNCHANGED <<mounted, playbackState, currentTime, audioCtx, now, playPending, oscs,
                   contextStart, seekOffset, raf, schedulerTimer, nextNoteIndex,
                   voiced, origin, late, pausedAt, cancelled, timeouts, frames,
                   pureVars, sseVars>>

ChangeInit == InitWith(ChangeSongs) /\ PureIdle /\ SseIdle

\* play() on a context that is running once created: the call runs through.
PlayThrough ==
    /\ audioCtx' = "running"
    /\ PlayCall

\* Engine time advances, within the shorter horizon explored here.
AdvanceEarly ==
    /\ now + StepMs <= ChangeInstants * 250
    /\ Advance

ChangeNext ==
    \/ PlayThrough
    \/ Pause
    \/ Stop
    \/ SchedulerTick
    \/ RafTick
    \/ AdvanceEarly
    \/ InputsChanged

ChangeSpec == ChangeInit /\ [][ChangeNext]_vars

(***************************************************************************)
(* noteToFreq as a function of its arguments: the pitch names of the       *)
(* table, a name that is not in it, and the octaves 0 .. MaxOctave.        *)
(***************************************************************************)
MaxOctave == 8
Pitches == DOMAIN NOTE_SEMITONES \cup {"H"}

PureInit ==
    /\ InitWith(<<Songs[1]>>)
    /\ fnPitch \in Pitches
    /\ fnOctave \in 0 .. MaxOctave
    /\ fnMidi = Null
    /\ fnFreq = Null
    /\ fnDuration = <<"q">>
    /\ fnTempo = 120
    /\ fnSecs = Null
    /\ SseIdle

\* noteToFreq(fnPitch, fnOctave) is called.
CallNoteToFreq ==
    /\ fnMidi = Null
    /\ fnMidi' = noteToMidi(fnPitch, fnOctave)
    /\ fnFreq' = noteToFreq(fnPitch, fnOctave)
    /\ UNCHANGED <<hookVars, fnPitch, fnOctave, fnDuration, fnTempo, fnSecs, sseVars>>

PureNext == CallNoteToFreq

PureSpec == PureInit /\ [][PureNext]_vars

\* durationToSecs over the codes of the table, each also with the rest
\* suffix, two codes outside the table, and tempos that divide 15000.
DurationInputs ==
    DurationCodes \cup {c \o <<"r">> : c \in DurationCodes} \cup {<<"x">>, <<"r">>}
Tempos == {60, 100, 120, 150}

DurationInit ==
    /\ InitWith(<<Songs[1]>>)
    /\ fnPitch = "C"
    /\ fnOctave = 0
    /\ fnMidi = Null
    /\ fnFreq = Null
    /\ fnDuration \in DurationInputs
    /\ fnTempo \in Tempos
    /\ fnSecs = Null
    /\ SseIdle

\* durationToSecs(fnDuration, fnTempo) is called.
CallDurationToSecs ==
    /\ fnSecs = Null
    /\ fnSecs' = durationToSecs(fnDuration, fnTempo)
    /\ UNCHANGED <<hookVars, fnPitch, fnOctave, fnMidi, fnFreq, fnDuration, fnTempo,
                   sseVars>>

DurationNext == CallDurationToSecs

DurationSpec == DurationInit /\ [][DurationNext]_vars

(***************************************************************************)
(* The transcription job: useTranscription (hooks/useTranscription.ts) on  *)
(* top of useSSE.  An event is dispatched to the listeners in the order    *)
(* they were registered, all within one step.                              *)
(***************************************************************************)
MaxJobs == 2

\* The stages a job reports before it completes (the keys of
\* STAGE_FALLBACK_MESSAGES but the last).
Stages ==
    <<"queued", "downloading", "separating", "preprocessing", "analyzing",
      "quantizing", "generating">>

\* useTranscription's callbacks, as the state they leave behind.
onProgressState(st, data) ==
    [st EXCEPT !.progress = data.percent,
               !.stage = data.stage,
               !.lastLoggedStage = data.stage,
               !.logs = IF data.stage # st.lastLoggedStage
                        THEN Append(st.logs, "info") ELSE st.logs]

onCompleteState(st) ==
    [st EXCEPT !.result = TRUE,
               !.progress = 100,
               !.stage = "completed",
               !.isProcessing = FALSE,
               !.logs = Append(st.logs, "success")]

onErrorState(st, message) ==
    [st EXCEPT !.error = message,
               !.stage = "failed",
               !.isProcessing = FALSE,
               !.logs = Append(st.logs, "error")]

TranscriptionState ==
    [progress |-> progress, stage |-> stage, result |-> result, error |-> error,
     isProcessing |-> isProcessing, logs |-> logs, lastLoggedStage |-> lastLoggedStage]

SetTranscriptionState(st) ==
    /\ progress' = st.progress
    /\ stage' = st.stage
    /\ result' = st.result
    /\ error' = st.error
    /\ isProcessing' = st.isProcessing
    /\ logs' = st.logs
    /\ lastLoggedStage' = st.lastLoggedStage

SseInit == InitWith(<<Songs[1]>>) /\ PureIdle /\ SseIdle

\* submitUrl / submitFile up to the await.
SubmitCall ==
    /\ jobs < MaxJobs
    /\ jobs' = jobs + 1
    /\ lastLoggedStage' = ""
    /\ logs' = <<"system">>
    /\ error' = "none"
    /\ isProcessing' = TRUE
    /\ progress' = 0
    /\ stage' = "queued"
    /\ submitPending' = TRUE
    /\ UNCHANGED <<sse, result, srvStep, hookVars, pureVars>>

\* The request is answered: connect(response.sse_endpoint) closes the
\* connection held and opens one to the new job.
SubmitResponded ==
    /\ submitPending
    /\ submitPending' = FALSE
    /\ logs' = logs \o <<"system", "system">>
    /\ sse' = "connecting"
    /\ srvStep' = 0
    /\ UNCHANGED <<stage, progress, result, error, isProcessing, lastLoggedStage, jobs,
                   hookVars, pureVars>>

\* The request fails: the catch block.
SubmitFailed ==
    /\ submitPending
    /\ submitPending' = FALSE
    /\ error' = "Failed to start transcription"
    /\ isProcessing' = FALSE
    /\ logs' = Append(logs, "error")
    /\ UNCHANGED <<sse, stage, progress, result, lastLoggedStage, srvStep, jobs,
                   hookVars, pureVars>>

\* The connection is established.
SseOpened ==
    /\ sse = "connecting"
    /\ sse' = "open"
    /\ UNCHANGED <<stage, progress, result, error, isProcessing, logs, lastLoggedStage,
                   submitPending, srvStep, jobs, hookVars, pureVars>>

\* A progress event arrives: the job has moved to its next stage, or reports
\* more progress within the stage it is in.
ProgressEvent ==
    /\ sse = "open"
    /\ \E adv \in {0, 1} :
          LET step == srvStep + adv
              data == [stage |-> Stages[step], percent |-> step * 10 + (IF adv = 0 THEN 5 ELSE 0)]
          IN /\ step \in DOMAIN Stages
             /\ srvStep' = step
             /\ SetTranscriptionState(onProgressState(TranscriptionState, data))
    /\ UNCHANGED <<sse, submitPending, jobs, hookVars, pureVars>>

\* The complete event arrives: onComplete, then eventSource.close().
CompleteEvent ==
    /\ sse = "open"
    /\ srvStep = Len(Stages)
    /\ SetTranscriptionState(onCompleteState(TranscriptionState))
    /\ sse' = "closed"
    /\ UNCHANGED <<submitPending, srvStep, jobs, hookVars, pureVars>>

\* The server sends an event named error with a JSON payload {error: ...}:
\* the 'error' listener (lines 47-59) and then the onerror handler (lines
\* 62-65) run, both registered for events of this type.
ServerErrorEvent ==
    /\ sse = "open"
    /\ SetTranscriptionState(
          onErrorState(onErrorState(TranscriptionState, "server"), "Connection lost"))
    /\ sse' = "closed"
    /\ UNCHANGED <<submitPending, srvStep, jobs, hookVars, pureVars>>

\* The connection is lost: the browser dispatches an error event without
\* data; the listener reports 'Connection error', the onerror handler
\* 'Connection lost...', and each closes the EventSource, which ends the
\* browser's own reconnection.
ConnectionLost ==
    /\ sse \in {"connecting", "open"}
    /\ SetTranscriptionState(
          onErrorState(onErrorState(TranscriptionState, "Connection error"),
                       "Connection lost"))
    /\ sse' = "closed"
    /\ UNCHANGED <<submitPending, srvStep, jobs, hookVars, pureVars>>

\* reset(): disconnect() and the initial state again.
Reset ==
    /\ sse' = "none"
    /\ progress' = 0
    /\ stage' = "idle"
    /\ result' = FALSE
    /\ error' = "none"
    /\ isProcessing' = FALSE
    /\ logs' = <<>>
    /\ UNCHANGED <<lastLoggedStage, submitPending, srvStep, jobs, hookVars, pureVars>>

SseNext ==
    \/ SubmitCall
    \/ SubmitResponded
    \/ SubmitFailed
    \/ SseOpened
    \/ ProgressEvent
    \/ CompleteEvent
    \/ ServerErrorEvent
    \/ ConnectionLost
    \/ Reset

SseSpec == SseInit /\ [][SseNext]_vars

(***************************************************************************)
(* Properties.                                                             *)
(***************************************************************************)
IsRest(i) == EndsWithR(sortedNotes[i + 1].duration)
NoteIndices == 0 .. (Len(sortedNotes) - 1)
VoicesOf(i) == {j \in DOMAIN voiced : voiced[j].note = i}
SongIs(k) ==
    /\ sortedNotes = SortNotes(Songs[k].notes)
    /\ totalDuration = Songs[k].total_duration

\* C1: right after stop(), whatever the state it was called in, the state is
\* idle, the reported position and the seek offset are 0, no oscillator is
\* held and neither a scheduler tick nor a position tick is pending.
C1_StopResetsEverything ==
    lastOp = "stop" =>
        /\ playbackState = "idle"
        /\ currentTime = 0
        /\ seekOffset = 0
        /\ oscs = <<>>
        /\ schedulerTimer = Null
        /\ ~raf

\* stop() has hit a playing session that had created voices and still had a
\* scheduler tick pending (the cursor had not reached the end).
C1_Witness ==
    /\ lastOp = "stop"
    /\ prevState = "playing"
    /\ voiced # <<>>
    /\ nextNoteIndex < Len(sortedNotes)

\* C2: right after pause() in the playing state the state is paused and the
\* reported position and the seek offset are engine_time - anchor; from then
\* until the next play() call no oscillator is held (so none was created) and
\* no scheduler tick is pending.
C2_PauseFreezesAndSilences ==
    /\ (lastOp = "pause" /\ prevState = "playing") =>
          /\ playbackState = "paused"
          /\ pausedAt = now - contextStart
          /\ currentTime = pausedAt
          /\ seekOffset = pausedAt
    /\ pausedAt # Null =>
          /\ oscs = <<>>
          /\ schedulerTimer = Null

\* pause() has hit a playing session while a voice created by the look-ahead
\* had not started yet and a scheduler tick was pending.
C2_Witness ==
    /\ lastOp = "pause"
    /\ prevState = "playing"
    /\ \E j \in DOMAIN voiced : voiced[j].start > now
    /\ nextNoteIndex < Len(sortedNotes)

\* C3 (as claimed): pause() in the paused state leaves the state paused and
\* keeps the reported position and the seek offset.
C3_PauseWhilePausedKeepsPosition ==
    [][(Pause /\ playbackState = "paused") =>
          /\ playbackState' = "paused"
          /\ currentTime' = currentTime
          /\ seekOffset' = seekOffset]_vars

\* C4 (as claimed): pause() or stop() in the idle state leaves the controller
\* idle with position 0 and seek offset 0.
C4_IdleStaysIdle ==
    (lastOp \in {"pause", "stop"} /\ prevState = "idle") =>
        /\ playbackState = "idle"
        /\ currentTime = 0
        /\ seekOffset = 0

StartOf(i) == sortedNotes[i + 1].start_time
Completed == lastOp = "raf" /\ prevState = "playing" /\ playbackState = "idle"
MainOsc(i, midi, start, stop) ==
    [note |-> i, kind |-> "main", midi |-> midi, start |-> start, stop |-> stop]

\* C5: when a session that play() started from idle, and that no pause, stop,
\* teardown or further play() interrupted, completes with no scheduler tick
\* left pending for a time step after it fell due, then every non-rest event
\* has exactly one voice and no rest has any; each voice starts within 20 ms
\* of anchor + start_time and stops durationToSecs(duration, tempo) later.  For
\* the three-event example: C4 at anchor + 0 for 0.5 s and D4 at anchor + 1.0
\* for 0.5 s, nothing else.
C5_EachEventVoicedOnce ==
    (Completed /\ origin.from = "idle" /\ ~late) =>
        /\ \A i \in NoteIndices :
              IF IsRest(i) THEN VoicesOf(i) = {}
              ELSE /\ Cardinality(VoicesOf(i)) = 1
                   /\ \A j \in VoicesOf(i) :
                         /\ voiced[j].start - (contextStart + StartOf(i)) <= PastTolerance
                         /\ (contextStart + StartOf(i)) - voiced[j].start <= PastTolerance
                         /\ voiced[j].stop = voiced[j].start
                               + durationToSecs(sortedNotes[i + 1].duration, tempo)
        /\ SongIs(1) =>
              voiced = << MainOsc(0, 60, contextStart, contextStart + 500),
                          MainOsc(2, 62, contextStart + 1000, contextStart + 1500) >>

\* An uninterrupted session of the long song has completed: its later events
\* lay beyond the first look-ahead window and were voiced by timer ticks.
C5_Witness ==
    /\ Completed
    /\ origin.from = "idle"
    /\ ~late
    /\ SongIs(2)
    /\ Len(voiced) = 3

\* C6: no oscillator is ever created for a rest, and after every run of the
\* scheduler the cursor stands past every event (rest or not) whose
\* start_time lies within the look-ahead window.
C6_RestsSkippedCursorAdvances ==
    /\ \A k \in DOMAIN oscs : ~IsRest(oscs[k].note)
    /\ \A j \in DOMAIN voiced : ~IsRest(voiced[j].note)
    /\ lastOp \in {"play", "resumed", "sched"} =>
          \/ nextNoteIndex = Len(sortedNotes)
          \/ StartOf(nextNoteIndex) > (now - contextStart) + LOOKAHEAD_SECS

\* The scheduler has run, a rest lies before the cursor and an event after
\* that rest has its voice.
C6_Witness ==
    /\ lastOp \in {"play", "resumed", "sched"}
    /\ \E k \in DOMAIN oscs :
          \E i \in NoteIndices : i < oscs[k].note /\ IsRest(i) /\ i < nextNoteIndex

\* The events of the densest look-ahead window of the timeline.
WindowCount(i) ==
    Cardinality({j \in NoteIndices :
                    StartOf(j) >= StartOf(i) /\ StartOf(j) <= StartOf(i) + LOOKAHEAD_SECS})
MaxWindowEvents ==
    IF NoteIndices = {} THEN 0
    ELSE CHOOSE m \in {WindowCount(i) : i \in NoteIndices} :
            \A i \in NoteIndices : WindowCount(i) <= m
LiveVoices == {k \in DOMAIN oscs : oscs[k].kind = "main" /\ oscs[k].stop > now}

\* C7 (as claimed): the voices held whose scheduled end has not passed never
\* outnumber the events of one look-ahead window.
C7_LiveVoicesWithinOneWindow == Cardinality(LiveVoices) <= MaxWindowEvents

\* C8: when play() takes the controller from paused to playing, the derived
\* song position engine_time - anchor right after it equals the position
\* reported while paused.
C8_ResumeAtFrozenPosition ==
    (lastOp \in {"play", "resumed"} /\ prevState = "paused" /\ playbackState = "playing") =>
        now - contextStart = currentTime

\* play() has resumed the example song paused at 0.75 s, after half a second
\* in the paused state.
C8_Witness ==
    /\ lastOp = "play"
    /\ prevState = "paused"
    /\ SongIs(1)
    /\ origin.p = 750
    /\ currentTime = 750
    /\ contextStart = 500

\* C9: in a session that play() resumed from a pause() made at position p of a
\* playing session, no voice is created for an event with
\* start_time < p - 20 ms; and when the session completes uninterrupted, its
\* scheduler ticks having fired when due, every non-rest event with
\* start_time >= p has exactly one voice.  In the example song paused at
\* 0.75 s the only voice of the resumed session is D4, at anchor + 1.0 s.
C9_ResumeNeitherRepeatsNorDrops ==
    /\ origin.p # Null =>
          \A j \in DOMAIN voiced : StartOf(voiced[j].note) >= origin.p - PastTolerance
    /\ (Completed /\ origin.p # Null /\ ~late) =>
          /\ \A i \in NoteIndices :
                (~IsRest(i) /\ StartOf(i) >= origin.p) => Cardinality(VoicesOf(i)) = 1
          /\ (SongIs(1) /\ origin.p = 750) =>
                voiced = << MainOsc(2, 62, contextStart + 1000, contextStart + 1500) >>

\* The example song, paused at 0.75 s (D4 was already pre-scheduled and was
\* killed by the pause) and resumed, has completed.
C9_Witness ==
    /\ Completed
    /\ ~late
    /\ SongIs(1)
    /\ origin.p = 750
    /\ Len(voiced) = 1

(***************************************************************************)
(* Liveness: engine time advances and animation frames keep firing; play() *)
(* is called only while the session it starts can end within the horizon.  *)
(***************************************************************************)
PlayInTime ==
    /\ now - seekOffset + totalDuration <= Horizon
    /\ PlayCall

NextLive ==
    \/ PlayInTime
    \/ PlayResumed
    \/ PlayRejected
    \/ Pause
    \/ Stop
    \/ Teardown
    \/ SchedulerTick
    \/ RafTick
    \/ Advance

LiveSpec == Init /\ [][NextLive]_vars /\ WF_vars(Advance) /\ WF_vars(RafTick)

\* C10: a position tick that finds engine_time - anchor >= total_duration in
\* the playing state leaves the controller idle with no scheduler tick
\* pending and no oscillator held; and a playing session always comes to an
\* end: it reaches idle unless pause() or the teardown ends it first.
C10_CompletionReachesIdle ==
    /\ [](  (lastOp = "raf" /\ prevState = "playing" /\ mounted
               /\ now - contextStart >= totalDuration)
            => (playbackState = "idle" /\ schedulerTimer = Null /\ oscs = <<>>))
    /\ ((playbackState = "playing" /\ mounted)
            ~> (playbackState = "idle" \/ playbackState = "paused" \/ ~mounted))

\* A position tick has ended a session that still held oscillators, at the
\* very instant the position reached total_duration.
C10_Witness ==
    /\ Completed
    /\ now - contextStart = totalDuration
    /\ voiced # <<>>
    /\ origin.from = "idle"

\* C11 (as claimed): the position reported right after the automatic
\* transition out of playing equals total_duration.
C11_PositionFrozenAtDuration ==
    (Completed /\ mounted) => currentTime = totalDuration

\* C11: the position reported right after the automatic transition out of
\* playing is 0, and so is the seek offset: the next play() starts over.
C11_PositionResetOnCompletion ==
    (Completed /\ mounted) => (currentTime = 0 /\ seekOffset = 0)

\* A session has completed by itself after its position had been reported
\* as non-zero, the derived position standing past the total duration.
C11_Witness ==
    /\ Completed
    /\ mounted
    /\ now - contextStart > totalDuration
    /\ origin.from = "paused"

\* C12: a play() call that fails, because the context cannot be created or
\* because resume() is rejected, changes nothing: in none of its steps (the
\* throwing constructor, the suspension at the await, the rejection) do the
\* playback state, the reported position, the seek offset, the clock anchor,
\* the cursor, the oscillators held or the pending ticks change, and no voice
\* is created.
C12_FailedPlayChangesNothing ==
    [][(lastOp' \in {"playfailed", "await", "rejected"}) =>
          UNCHANGED <<playbackState, currentTime, seekOffset, contextStart,
                      nextNoteIndex, oscs, raf, schedulerTimer, voiced>>]_vars

\* resume() has been rejected for a mounted hook whose context is still
\* suspended: the controller is idle at position 0 and holds nothing.
C12_Witness ==
    /\ lastOp = "rejected"
    /\ mounted
    /\ audioCtx = "suspended"
    /\ playbackState = "idle"
    /\ oscs = <<>>
    /\ ~raf

InTable(i) == StripFirstR(sortedNotes[i + 1].duration) \in DurationCodes

\* C13 (as claimed): a voice of an event whose duration code is not in the
\* beat table stops one beat (60 / tempo seconds) after anchor + start_time;
\* such an event does not stop the scheduler, whose every run leaves the
\* cursor past the look-ahead window; and a session that completes
\* uninterrupted has voiced every event that is not a rest.
C13_UnknownCodeFallsBack ==
    /\ \A j \in DOMAIN voiced :
          ~InTable(voiced[j].note) =>
              voiced[j].stop = contextStart + StartOf(voiced[j].note) + (60000 \div tempo)
    /\ lastOp \in {"play", "resumed", "sched"} =>
          \/ nextNoteIndex = Len(sortedNotes)
          \/ StartOf(nextNoteIndex) > (now - contextStart) + LOOKAHEAD_SECS
    /\ (Completed /\ origin.from = "idle" /\ ~late) =>
          \A i \in NoteIndices : ~IsRest(i) => Cardinality(VoicesOf(i)) = 1

\* The spelling of a pitch name: its letter's distance from C in semitones
\* and its accidental (1 sharp, -1 flat).
LetterOffset(l) ==
    CASE l = "C" -> 0 [] l = "D" -> 2 [] l = "E" -> 4 [] l = "F" -> 5
      [] l = "G" -> 7 [] l = "A" -> 9 [] l = "B" -> 11
Spelled(l, a) ==
    CASE a = 0 -> l [] a = 1 -> l \o "#" [] a = -1 -> l \o "b"
OffsetFromC(p) ==
    CHOOSE s \in 0 .. 11 :
        \E l \in {"C", "D", "E", "F", "G", "A", "B"}, a \in {-1, 0, 1} :
            p = Spelled(l, a) /\ s = LetterOffset(l) + a
EnharmonicPairs ==
    {<<"C#", "Db">>, <<"D#", "Eb">>, <<"F#", "Gb">>, <<"G#", "Ab">>, <<"A#", "Bb">>}

\* C14: for every pitch name of the table and every octave, the midi number
\* noteToFreq computes is 12 * (octave + 1) + the pitch's distance from C, and
\* the frequency is 440 * 2^((midi - 69) / 12); the two spellings of an
\* enharmonic pair get the same midi number and frequency; A at octave 4 is
\* midi 69, 440 Hz; and the same pitch one octave up is exactly 12 higher.
C14_EnharmonicSameMidi ==
    (fnMidi # Null /\ fnPitch \in DOMAIN NOTE_SEMITONES) =>
        /\ fnMidi = 12 * (fnOctave + 1) + OffsetFromC(fnPitch)
        /\ fnFreq = [hz |-> 440, twelfths |-> fnMidi - 69]
        /\ \A pr \in EnharmonicPairs :
              fnPitch = pr[1] =>
                  /\ noteToMidi(pr[2], fnOctave) = fnMidi
                  /\ noteToFreq(pr[2], fnOctave) = fnFreq
        /\ (fnPitch = "A" /\ fnOctave = 4) =>
              (fnMidi = 69 /\ fnFreq = [hz |-> 440, twelfths |-> 0])
        /\ noteToMidi(fnPitch, fnOctave + 1) = fnMidi + 12

\* noteToFreq has been applied to G# at octave 3, whose other spelling is Ab:
\* midi 56.
C14_Witness ==
    /\ fnPitch = "G#"
    /\ fnOctave = 3
    /\ fnMidi = 56
    /\ noteToMidi("Ab", 3) = 56

\* C16 (as claimed): once pause(), stop() or the teardown has run while a
\* play() call was suspended at its await, and until play() is called again,
\* the state is not playing, no oscillator is held and neither a scheduler
\* tick nor a position tick is pending.
C16_CancellationNotUndone ==
    cancelled =>
        /\ playbackState # "playing"
        /\ oscs = <<>>
        /\ schedulerTimer = Null
        /\ ~raf

\* C15 (as claimed): from the teardown on no oscillator is held, neither a
\* scheduler tick nor a position tick is pending, and the context, if one
\* was created, is closed.
C15_TeardownCancelsEverything ==
    ~mounted =>
        /\ oscs = <<>>
        /\ schedulerTimer = Null
        /\ ~raf
        /\ audioCtx \in {"none", "closed"}

\* C18: while the hook is mounted, idle implies position 0, no oscillator
\* held and no scheduler tick pending; paused implies no oscillator held and
\* neither a scheduler tick nor a position tick pending; and in both states
\* a step that is not a control call (engine time advancing, a timer or
\* animation-frame callback) leaves the reported position as it is.
C18_IdleAndPausedAreQuiet ==
    /\ [](mounted =>
            /\ playbackState = "idle" =>
                  (currentTime = 0 /\ oscs = <<>> /\ schedulerTimer = Null)
            /\ playbackState = "paused" =>
                  (oscs = <<>> /\ schedulerTimer = Null /\ ~raf))
    /\ [][(mounted /\ playbackState \in {"idle", "paused"}
              /\ lastOp' \in {"advance", "sched", "raf"})
            => currentTime' = currentTime]_vars

\* Engine time has advanced while the controller was paused at a non-zero
\* position, a play() call having run since the context exists.
C18_Witness ==
    /\ mounted
    /\ playbackState = "paused"
    /\ lastOp = "advance"
    /\ prevState = "paused"
    /\ currentTime > 0
    /\ now > currentTime + contextStart

\* C19: right after every run of the scheduler, each event it has handled
\* (each index before the cursor, voiced or skipped) has a start_time of at
\* most the song position of that run plus LOOKAHEAD_SECS; and no oscillator
\* is ever held for an event that starts later than the current song
\* position plus LOOKAHEAD_SECS.
C19_NothingBeyondLookahead ==
    /\ lastOp \in {"play", "resumed", "sched"} =>
          \A i \in NoteIndices :
              i < nextNoteIndex => StartOf(i) <= (now - contextStart) + LOOKAHEAD_SECS
    /\ \A k \in DOMAIN oscs :
          StartOf(oscs[k].note) <= (now - contextStart) + LOOKAHEAD_SECS

\* The scheduler has run on the long song and has left the cursor on an
\* event that starts beyond the window, after handling the events within it.
C19_Witness ==
    /\ lastOp \in {"play", "sched"}
    /\ SongIs(2)
    /\ nextNoteIndex > 0
    /\ nextNoteIndex < Len(sortedNotes)
    /\ StartOf(nextNoteIndex) > (now - contextStart) + LOOKAHEAD_SECS
    /\ oscs # <<>>

\* C20 (as claimed): while the hook is mounted the reported position lies
\* within [0, total_duration].
C20_PositionWithinTimeline ==
    mounted => (currentTime >= 0 /\ currentTime <= totalDuration)

\* C17 (as claimed): when the connection is lost the client does not close
\* it and does not end the job as failed: the connection is being
\* re-established or open again, and the job still counts as processing.
C17_ReconnectsAfterLoss ==
    [][ConnectionLost =>
          /\ sse' \in {"connecting", "open"}
          /\ stage' # "failed"
          /\ isProcessing' = isProcessing]_vars

\* C21 (as claimed): no position tick changes the oscillators held or the
\* pending scheduler tick.
C21_TickTouchesNoVoice ==
    [][lastOp' = "raf" => UNCHANGED <<oscs, schedulerTimer>>]_vars

\* C21: a position tick that finds the position below total_duration only
\* reads the clock and sets the reported position: oscillators, voices
\* created, scheduler tick, cursor, anchor, seek offset and state stay as
\* they are.  The tick that finds the position at or past total_duration
\* ends the session instead: it drops every oscillator and cancels the
\* pending scheduler tick.
C21_OnlyCompletingTickTouchesVoices ==
    [][lastOp' = "raf" =>
          IF now - contextStart < totalDuration
          THEN /\ UNCHANGED <<oscs, voiced, schedulerTimer, nextNoteIndex, contextStart,
                              seekOffset, playbackState>>
               /\ mounted => currentTime' = now - contextStart
          ELSE oscs' = <<>> /\ schedulerTimer' = Null]_vars

\* A position tick has run in the middle of a session that holds
\* oscillators and has a scheduler tick pending.
C21_Witness ==
    /\ lastOp = "raf"
    /\ playbackState = "playing"
    /\ now - contextStart < totalDuration
    /\ currentTime > 0
    /\ oscs # <<>>
    /\ schedulerTimer # Null

\* C22: a scheduler tick changes nothing but the cursor, the oscillators
\* held and the pending scheduler tick: the clock anchor, the seek offset,
\* the playback state, the reported position, the pending position tick,
\* the context and the timeline stay as they are.
C22_SchedulerTickFrame ==
    [][lastOp' = "sched" =>
          UNCHANGED <<contextStart, seekOffset, playbackState, currentTime, raf,
                      audioCtx, now, playPending, mounted, sortedNotes, tempo,
                      totalDuration>>]_vars

\* A scheduler tick of a playing session has created a voice for an event
\* that lay beyond the first look-ahead window, the position having been
\* reported in between.
C22_Witness ==
    /\ lastOp = "sched"
    /\ playbackState = "playing"
    /\ SongIs(2)
    /\ Len(voiced) >= 2
    /\ currentTime > 0
    /\ seekOffset = 0

\* C23: the cursor always lies within 0 .. length of the timeline, and no
\* step other than a play() call (run through, or continued after its
\* await) makes it smaller.
C23_CursorMonotonicWithinSession ==
    /\ [](nextNoteIndex >= 0 /\ nextNoteIndex <= Len(sortedNotes))
    /\ [][lastOp' \notin {"play", "resumed"} => nextNoteIndex' >= nextNoteIndex]_vars

\* The scheduler ticks of one session of the long song have moved the
\* cursor from the end of the first window to the end of the timeline, and
\* the session has been paused since.
C23_Witness ==
    /\ SongIs(2)
    /\ origin = NoSession
    /\ lastOp = "pause"
    /\ prevState = "playing"
    /\ nextNoteIndex = Len(sortedNotes)
    /\ Len(voiced) = 3

(***************************************************************************)
(* C24.  The timeline is sorted and voices follow its order.               *)
(***************************************************************************)
\* The place of an event in the notes argument (the events are distinct).
PlaceIn(ns, n) == CHOOSE k \in DOMAIN ns : ns[k] = n

\* The timeline holds the events of the notes argument by non-decreasing
\* start_time, equal start_times in the order of the argument.
TimelineSorted ==
    /\ Len(sortedNotes) = Len(notes)
    /\ \A i \in DOMAIN sortedNotes : \E k \in DOMAIN notes : notes[k] = sortedNotes[i]
    /\ \A i, j \in DOMAIN sortedNotes :
          i < j => \/ sortedNotes[i].start_time < sortedNotes[j].start_time
                   \/ /\ sortedNotes[i].start_time = sortedNotes[j].start_time
                      /\ PlaceIn(notes, sortedNotes[i]) < PlaceIn(notes, sortedNotes[j])

\* C24: at all times, for any order of the notes argument and after the
\* argument is replaced, the timeline is sorted by non-decreasing start_time
\* with ties in their original order, and the voices created since the last
\* play() were created in non-decreasing order of their start.
C24_SortedTimelineOrderedVoices ==
    /\ TimelineSorted
    /\ \A j \in 1 .. (Len(voiced) - 1) : voiced[j].start <= voiced[j + 1].start

(***************************************************************************)
(* C25.  One pending tick of each kind.                                    *)
(***************************************************************************)
\* The live primary oscillators of event i.
LiveVoicesOf(i) == {k \in DOMAIN oscs : oscs[k].kind = "main" /\ oscs[k].note = i}

AtMostOnePending ==
    /\ timeouts = Armed(schedulerTimer)
    /\ frames = (IF raf THEN 1 ELSE 0)
    /\ \A i \in NoteIndices : Cardinality(LiveVoicesOf(i)) <= 1

\* C25: after each run of the scheduler (from play() or from its timer) a
\* next run is pending, due 200 ms later, exactly if the cursor is short of
\* the end of the timeline; at any time at most one scheduler callback and at
\* most one position callback are pending, each the one the hook holds the
\* handle of, and no event has two live voices; a play() whose body runs at
\* the instant another body has just run (play() while playing, or the
\* continuations of two overlapping calls) leaves the same single callbacks
\* and voices behind.
C25_OnePendingTickOfEachKind ==
    /\ []AtMostOnePending
    /\ [][lastOp' \in {"sched", "play", "resumed"} =>
            /\ (schedulerTimer' # Null) <=> (nextNoteIndex' < Len(sortedNotes))
            /\ schedulerTimer' # Null => schedulerTimer' = now + SCHEDULE_INTERVAL_MS]_vars
    /\ [][(lastOp \in {"play", "resumed"} /\ lastOp' = "play" /\ mounted') =>
            UNCHANGED <<oscs, schedulerTimer, raf, timeouts, frames, nextNoteIndex,
                        contextStart>>]_vars

\* play() was called while playing, with a scheduler callback and a position
\* callback pending from the running session, and left one of each.
C25_Witness ==
    /\ lastOp = "play"
    /\ prevState = "playing"
    /\ now > contextStart
    /\ timeouts = 1
    /\ frames = 1
    /\ nextNoteIndex < Len(sortedNotes)

(***************************************************************************)
(* C26.  Events whose start has passed are dropped, never played late.     *)
(***************************************************************************)
\* The voices created by the step.
NewVoices ==
    IF lastOp' = "sched" THEN SubSeq(voiced', Len(voiced) + 1, Len(voiced'))
    ELSE voiced'

\* The cursor the scheduler run of the step started from.
CursorBefore ==
    IF lastOp' = "sched" THEN nextNoteIndex
    ELSE CHOOSE i \in 0 .. Len(sortedNotes) :
            /\ \A k \in 0 .. (i - 1) : StartOf(k) < seekOffset - PastTolerance
            /\ i < Len(sortedNotes) => StartOf(i) >= seekOffset - PastTolerance

\* C26: in every run of the scheduler, no voice is created for an event
\* whose nominal engine start (anchor + start_time) lies more than 20 ms
\* before the engine time; the cursor passes such an event and goes on to the
\* end of the window; and every voice created starts at or after the engine
\* time.
C26_StaleEventsDropped ==
    [][lastOp' \in {"sched", "play", "resumed"} =>
        /\ \A j \in DOMAIN NewVoices :
              /\ contextStart' + StartOf(NewVoices[j].note) >= now - PastTolerance
              /\ NewVoices[j].start >= now
        /\ \A i \in CursorBefore .. (nextNoteIndex' - 1) :
              (~IsRest(i) /\ contextStart' + StartOf(i) >= now - PastTolerance)
                 => \E j \in DOMAIN NewVoices : NewVoices[j].note = i
        /\ nextNoteIndex' >= CursorBefore
        /\ \/ nextNoteIndex' = Len(sortedNotes)
           \/ StartOf(nextNoteIndex') > (now - contextStart') + LOOKAHEAD_SECS]_vars

\* A scheduler tick that ran more than two seconds late: an event that had
\* come into the window and gone by was passed without a voice, and a later
\* one was voiced.
C26_Witness ==
    /\ lastOp = "sched"
    /\ playbackState = "playing"
    /\ seekOffset = 0
    /\ \E i \in NoteIndices :
          /\ i < nextNoteIndex
          /\ ~IsRest(i)
          /\ VoicesOf(i) = {}
          /\ contextStart + StartOf(i) < now - PastTolerance
          /\ \E j \in DOMAIN voiced : voiced[j].note > i /\ voiced[j].start >= now

(***************************************************************************)
(* C27.  The cursor search of play() and the guard of scheduleNote agree.  *)
(***************************************************************************)
\* C27: play() starts the scheduler at the smallest index whose start_time
\* is at least seek_offset - 20 ms (the timeline length if there is none):
\* no voice is created below that index, every event from it up to the
\* cursor left by the run has its voice unless it is a rest, and against the
\* anchor play() has just set every event at or after that index passes the
\* guard of scheduleNote while every event before it would fail it.
C27_CursorAgreesWithGuard ==
    [][lastOp' \in {"play", "resumed"} =>
        /\ nextNoteIndex' >= CursorBefore
        /\ \A j \in DOMAIN voiced' : voiced'[j].note >= CursorBefore
        /\ \A i \in CursorBefore .. (nextNoteIndex' - 1) :
              ~IsRest(i) => \E j \in DOMAIN voiced' : voiced'[j].note = i
        /\ \A i \in NoteIndices :
              (i >= CursorBefore) <=> ~(contextStart' + StartOf(i) < now - PastTolerance)]_vars

\* play() after a pause at 0.5 s of the song with events at 0.47 s and
\* 0.49 s: the first is before the cursor, the second, within the tolerance,
\* is the first one voiced, at the engine time of the call.
C27_Witness ==
    /\ lastOp = "play"
    /\ prevState = "paused"
    /\ SongIs(3)
    /\ seekOffset = 500
    /\ voiced # <<>>
    /\ voiced[1].note = 2
    /\ voiced[1].start = now
    /\ contextStart + StartOf(2) = now - 10

(***************************************************************************)
(* C28.  durationToSecs.                                                   *)
(***************************************************************************)
\* The beat table as documented, in hundredths of a beat.
BeatHundredths ==
    [c \in {<<"w">>, <<"h", "d">>, <<"h">>, <<"q", "d">>, <<"q">>, <<"8", "d">>,
            <<"8">>, <<"1", "6">>} |->
        CASE c = <<"w">> -> 400 [] c = <<"h", "d">> -> 300 [] c = <<"h">> -> 200
          [] c = <<"q", "d">> -> 150 [] c = <<"q">> -> 100 [] c = <<"8", "d">> -> 75
          [] c = <<"8">> -> 50 [] c = <<"1", "6">> -> 25]

\* The code without its rest suffix.
WithoutSuffix(c) == IF EndsWithR(c) THEN SubSeq(c, 1, Len(c) - 1) ELSE c

\* C28: for a code of the table, with or without the rest suffix,
\* durationToSecs returns beats * 60 / tempo seconds with beats as
\* documented (in milliseconds: secs * tempo = hundredths * 600), and the
\* code with the suffix resolves to the same value as the code without it.
C28_DurationToSeconds ==
    (fnSecs # Null /\ WithoutSuffix(fnDuration) \in DOMAIN BeatHundredths) =>
        /\ fnSecs * fnTempo = BeatHundredths[WithoutSuffix(fnDuration)] * 600
        /\ fnSecs = durationToSecs(WithoutSuffix(fnDuration), fnTempo)
        /\ fnSecs = durationToSecs(WithoutSuffix(fnDuration) \o <<"r">>, fnTempo)

\* A dotted-eighth rest at 100 bpm: 0.75 * 60 / 100 = 0.45 s.
C28_Witness ==
    /\ fnDuration = <<"8", "d", "r">>
    /\ fnTempo = 100
    /\ fnSecs = 450

(***************************************************************************)
(* C29.  The arguments change during a session.                            *)
(***************************************************************************)
\* C29 (as claimed): when the notes or the tempo change while the state is
\* playing or paused, the controller stops (idle, no voices, no pending
\* tick), the timeline is rebuilt and the cursor is reset.
C29_InputChangeStopsSession ==
    [][(lastOp' = "inputs" /\ (notes' # notes \/ tempo' # tempo)
          /\ playbackState \in {"playing", "paused"}) =>
        /\ playbackState' = "idle"
        /\ oscs' = <<>>
        /\ schedulerTimer' = Null
        /\ ~raf'
        /\ TimelineSorted'
        /\ nextNoteIndex' = 0]_vars

(***************************************************************************)
(* C30.  One terminal callback for each connection.                        *)
(***************************************************************************)
\* C30 (as claimed): a complete event yields one onComplete and a failure
\* one onError, each adding one log entry; after an error event sent by the
\* server with a payload the error in the state is the server's message.
C30_OneTerminalCallback ==
    [][/\ CompleteEvent => (stage' = "completed" /\ Len(logs') = Len(logs) + 1)
       /\ ConnectionLost => (stage' = "failed" /\ Len(logs') = Len(logs) + 1)
       /\ ServerErrorEvent =>
             (stage' = "failed" /\ error' = "server" /\ Len(logs') = Len(logs) + 1)]_vars
=============================================================================
